---------------------------- MODULE Spec2Model ----------------------------
(***************************************************************************)
(* A model of pbt_tutorial/basic_functions.py: count_vowels,               *)
(* merge_max_mappings, leftpad, run_length_encoder and run_length_decoder, *)
(* each driven by the calls its property test makes.                       *)
(*                                                                         *)
(* A str is a sequence of Unicode code points (Nat).  A dict is a function *)
(* whose domain is its key set.  Dict objects live in a heap, so that two  *)
(* names may refer to one object.  A call that raises is recorded as a     *)
(* record with raised = TRUE.                                              *)
(***************************************************************************)
EXTENDS Integers, Sequences, FiniteSets, TLC

VARIABLES
    pc,          \* position of the caller in its script
    x,           \* count_vowels: the input string
    include_y,   \* count_vowels: the flag
    num_vowels,  \* count_vowels(x, include_y)
    derived,     \* count_vowels of a string derived from x
    heap,        \* merge_max_mappings: object id -> dict
    dict1,       \* reference (object id) passed as dict1
    dict2,       \* reference (object id) passed as dict2
    merged,      \* reference returned by merge_max_mappings (0: none yet)
    again,       \* reference returned by the second merge (0: none yet)
    before,      \* the entries dict1 and dict2 held before the call
    string,      \* leftpad: the input string
    width,       \* leftpad: the width argument
    fillchar,    \* leftpad: the fillchar argument
    padded,      \* leftpad: the outcome of the call
    in_string,   \* run_length_encoder: the input string
    in_list,     \* run_length_decoder: the token stream
    origin,      \* who made in_list: "encoder" or "caller"
    decoded      \* run_length_decoder: the outcome of the call

vowelVars == <<x, include_y, num_vowels, derived>>
mergeVars == <<heap, dict1, dict2, merged, again, before>>
padVars   == <<string, width, fillchar, padded>>
rleVars   == <<in_string, in_list, origin, decoded>>
vars      == <<pc, vowelVars, mergeVars, padVars, rleVars>>

-----------------------------------------------------------------------------
(* Bounds *)

MaxVowelLen == 3
MaxRepeat == 2
MaxVal == 2
MaxPadLen == 2
MaxWidth == 4
MaxRleLen == 4
MaxTokens == 3

-----------------------------------------------------------------------------
(* Strings *)

\* All strings over alphabet A of length at most n.
Strings(A, n) == UNION {[1..k -> A] : k \in 0..n}

\* Python's n * s for a str s and an int n: empty when n <= 0.
RECURSIVE StrMul(_, _)
StrMul(s, n) == IF n <= 0 THEN <<>> ELSE s \o StrMul(s, n - 1)

\* s[::-1]
Reversed(s) == [i \in 1..Len(s) |-> s[Len(s) + 1 - i]]

\* Insert c into the ascending string s, after the elements <= c.
RECURSIVE Insert(_, _)
Insert(c, s) ==
    IF s = <<>> THEN <<c>>
    ELSE IF c < Head(s) THEN <<c>> \o s
    ELSE <<Head(s)>> \o Insert(c, Tail(s))

\* "".join(sorted(s)): ascending by code point.
RECURSIVE Sorted(_)
Sorted(s) == IF s = <<>> THEN <<>> ELSE Insert(s[Len(s)], Sorted(SubSeq(s, 1, Len(s) - 1)))

\* The permutations of 1..n.
Perms(n) == {p \in [1..n -> 1..n] : \A i, j \in 1..n : p[i] = p[j] => i = j}

\* str.upper() of one character.  a..z map to A..Z; U+0131 (dotless i) maps
\* to I; U+FB01 (the ligature fi) maps to FI; the rest of the alphabet
\* modelled here is its own upper case.
UpperChar(c) ==
    IF c \in 97..122 THEN <<c - 32>>
    ELSE IF c = 305 THEN <<73>>
    ELSE IF c = 64257 THEN <<70, 73>>
    ELSE <<c>>

\* str.lower() of one character.  A..Z map to a..z; U+0130 (I with dot
\* above) maps to i followed by U+0307 (combining dot above).
LowerChar(c) ==
    IF c \in 65..90 THEN <<c + 32>>
    ELSE IF c = 304 THEN <<105, 775>>
    ELSE <<c>>

RECURSIVE Upper(_)
Upper(s) == IF s = <<>> THEN <<>> ELSE UpperChar(Head(s)) \o Upper(Tail(s))

RECURSIVE Lower(_)
Lower(s) == IF s = <<>> THEN <<>> ELSE LowerChar(Head(s)) \o Lower(Tail(s))

-----------------------------------------------------------------------------
(* count_vowels *)

\* set("aeiouAEIOU")
BaseVowels == {97, 101, 105, 111, 117, 65, 69, 73, 79, 85}

\* "yY"
YVowels == {121, 89}

\* A vowel set that forgets the upper-case letters.
VowelsLowerOnly(inc_y) == {97, 101, 105, 111, 117} \cup (IF inc_y THEN {121} ELSE {})

\* vowels = set("aeiouAEIOU"); if include_y: vowels.update("yY")
Vowels(inc_y) == BaseVowels \cup (IF inc_y THEN YVowels ELSE {})

\* A count that stops at the first character that is not a vowel.
RECURSIVE CountLeadingVowels(_, _)
CountLeadingVowels(s, inc_y) ==
    IF s = <<>> \/ Head(s) \notin Vowels(inc_y) THEN 0
    ELSE 1 + CountLeadingVowels(Tail(s), inc_y)

\* sum(char in vowels for char in x)
count_vowels(s, inc_y) == Cardinality({i \in 1..Len(s) : s[i] \in Vowels(inc_y)})

\* a, E, y, b and the non-ASCII letters U+0131, U+0130.
VowelAlphabet == {97, 69, 121, 98, 305, 304}

IsAscii(s) == \A i \in 1..Len(s) : s[i] < 128

NoDerived == [how |-> "none", arg |-> <<>>, n |-> 0, count |-> 0]

mergeIdle == heap = <<>> /\ dict1 = 0 /\ dict2 = 0 /\ merged = 0 /\ again = 0 /\ before = <<>>
vowelIdle == x = <<>> /\ include_y = FALSE /\ num_vowels = 0 /\ derived = NoDerived
padIdle == string = <<>> /\ width = <<>> /\ fillchar = <<>> /\ padded = <<>>
rleIdle == in_string = <<>> /\ in_list = <<>> /\ origin = "none" /\ decoded = <<>>

InitVowels ==
    /\ pc = "start"
    /\ x \in Strings(VowelAlphabet, MaxVowelLen)
    /\ include_y \in BOOLEAN
    /\ num_vowels = 0
    /\ derived = NoDerived
    /\ mergeIdle /\ padIdle /\ rleIdle

\* num_vowels = count_vowels(in_string, include_y)
Count ==
    /\ pc = "start"
    /\ num_vowels' = count_vowels(x, include_y)
    /\ pc' = "counted"
    /\ UNCHANGED <<x, include_y, derived, mergeVars, padVars, rleVars>>

Derive(how, arg, n) ==
    /\ pc = "counted"
    /\ derived' = [how |-> how, arg |-> arg, n |-> n, count |-> count_vowels(arg, include_y)]
    /\ pc' = "derived"
    /\ UNCHANGED <<x, include_y, num_vowels, mergeVars, padVars, rleVars>>

\* count_vowels(num_repeat * in_string, include_y)
CountRepeated == \E n \in 0..MaxRepeat : Derive("repeat", StrMul(x, n), n)

\* count_vowels(in_string[::-1], include_y)
CountReversed == Derive("reverse", Reversed(x), 0)

\* count_vowels("".join(sorted(in_string)), include_y)
CountSorted == Derive("sort", Sorted(x), 0)

\* count_vowels of any rearrangement of in_string
CountPermuted ==
    \E p \in Perms(Len(x)) : Derive("permute", [i \in 1..Len(x) |-> x[p[i]]], 0)

\* count_vowels(in_string.upper(), include_y)
CountUpper == Derive("upper", Upper(x), 0)

\* count_vowels(in_string.lower(), include_y)
CountLower == Derive("lower", Lower(x), 0)

NextVowels ==
    \/ Count
    \/ CountRepeated
    \/ CountReversed
    \/ CountSorted
    \/ CountPermuted
    \/ CountUpper
    \/ CountLower

SpecVowels == InitVowels /\ [][NextVowels]_vars

-----------------------------------------------------------------------------
(* merge_max_mappings *)

Keys == {"a", "b"}

\* Values are ints and floats (st.integers() | st.floats(allow_nan=False)):
\* 1 and 1.0 are different objects that compare equal.
Values == [num : 0..MaxVal, isFloat : BOOLEAN]

Dicts == UNION {[K -> Values] : K \in SUBSET Keys}

\* value > merged[key]
Gt(v, w) == v.num > w.num

\* v <= w
Le(v, w) == v.num <= w.num

\* A store that accumulates into an entry already present: d[key] += value
AddItem(d, key, value) ==
    [k \in DOMAIN d \cup {key} |->
        IF k # key THEN d[k]
        ELSE IF key \in DOMAIN d
             THEN [num |-> d[key].num + value.num, isFloat |-> d[key].isFloat \/ value.isFloat]
             ELSE value]

\* d[key] = value
SetItem(d, key, value) == [k \in DOMAIN d \cup {key} |-> IF k = key THEN value ELSE d[k]]

\* del d[key]
DelItem(d, key) == [k \in DOMAIN d \ {key} |-> d[k]]

\* A "copy" that hands back the same object.
NoCopy(h, src) == [heap |-> h, ref |-> src]

\* merged = dict(dict1): a new object holding the entries of h[src].
DictCopy(h, src) ==
    LET new == Cardinality(DOMAIN h) + 1
    IN  [heap |-> [r \in DOMAIN h \cup {new} |-> IF r = new THEN h[src] ELSE h[r]],
         ref |-> new]

\* A test that keeps the smaller value.
TakesSmaller(m, key, value) == key \notin DOMAIN m \/ Gt(m[key], value)

\* key not in merged or value > merged[key]
Takes(m, key, value) == key \notin DOMAIN m \/ Gt(value, m[key])

\* for key, value in dict2.items(): ... merged[key] = value
\* The items are read from the heap at each step, as the loop reads them.
RECURSIVE MergeLoop(_, _, _, _)
MergeLoop(h, m, d2, todo) ==
    IF todo = {} THEN h
    ELSE LET key == CHOOSE k \in todo : TRUE
             value == h[d2][key]
             h1 == IF Takes(h[m], key, value)
                   THEN [h EXCEPT ![m] = SetItem(@, key, value)]
                   ELSE h
         IN  MergeLoop(h1, m, d2, todo \ {key})

\* merge_max_mappings(d1, d2) on heap h: the heap after the call and the
\* reference returned.
merge_max_mappings(h, d1, d2) ==
    LET c == DictCopy(h, d1)
    IN  [heap |-> MergeLoop(c.heap, c.ref, d2, DOMAIN c.heap[d2]), ref |-> c.ref]

\* Two distinct mappings, or the same mapping passed twice.
InitMerge ==
    /\ pc = "start"
    /\ \/ /\ heap \in [{1, 2} -> Dicts]
          /\ dict1 = 1 /\ dict2 = 2
       \/ /\ heap \in [{1} -> Dicts]
          /\ dict1 = 1 /\ dict2 = 1
    /\ before = <<heap[dict1], heap[dict2]>>
    /\ merged = 0 /\ again = 0
    /\ vowelIdle /\ padIdle /\ rleIdle

\* merged_dict = merge_max_mappings(dict1, dict2)
Merge ==
    /\ pc = "start"
    /\ LET r == merge_max_mappings(heap, dict1, dict2)
       IN  heap' = r.heap /\ merged' = r.ref
    /\ pc' = "merged"
    /\ UNCHANGED <<dict1, dict2, again, before, vowelVars, padVars, rleVars>>

\* merge_max_mappings(max_dict, dict2)
MergeResultWithDict2 ==
    /\ pc = "merged"
    /\ LET r == merge_max_mappings(heap, merged, dict2)
       IN  heap' = r.heap /\ again' = r.ref
    /\ pc' = "result_dict2"
    /\ UNCHANGED <<dict1, dict2, merged, before, vowelVars, padVars, rleVars>>

\* merge_max_mappings(dict1, max_dict)
MergeDict1WithResult ==
    /\ pc = "merged"
    /\ LET r == merge_max_mappings(heap, dict1, merged)
       IN  heap' = r.heap /\ again' = r.ref
    /\ pc' = "dict1_result"
    /\ UNCHANGED <<dict1, dict2, merged, before, vowelVars, padVars, rleVars>>

\* The caller changes the returned mapping: merged_dict[k] = v
StoreInResult ==
    /\ pc = "merged"
    /\ \E k \in Keys, v \in Values :
          /\ IF k \in DOMAIN heap[merged] THEN heap[merged][k] # v ELSE TRUE
          /\ heap' = [heap EXCEPT ![merged] = SetItem(@, k, v)]
    /\ pc' = "changed"
    /\ UNCHANGED <<dict1, dict2, merged, again, before, vowelVars, padVars, rleVars>>

\* The caller changes the returned mapping: del merged_dict[k]
DeleteFromResult ==
    /\ pc = "merged"
    /\ \E k \in DOMAIN heap[merged] :
          heap' = [heap EXCEPT ![merged] = DelItem(@, k)]
    /\ pc' = "changed"
    /\ UNCHANGED <<dict1, dict2, merged, again, before, vowelVars, padVars, rleVars>>

NextMerge ==
    \/ Merge
    \/ MergeResultWithDict2
    \/ MergeDict1WithResult
    \/ StoreInResult
    \/ DeleteFromResult

SpecMerge == InitMerge /\ [][NextMerge]_vars

-----------------------------------------------------------------------------
(* Outcomes of a call *)

Return(v) == [kind |-> "return", exc |-> "", value |-> v]
Raise(e) == [kind |-> "raise", exc |-> e, value |-> <<>>]

-----------------------------------------------------------------------------
(* leftpad *)

\* c and Z
PadAlphabet == {99, 90}

\* An int of -2..MaxWidth, or a float (2.0).
Widths ==
    {[isInt |-> TRUE, val |-> v] : v \in (0 - 2)..MaxWidth} \cup {[isInt |-> FALSE, val |-> 2]}

Max(a, b) == IF a >= b THEN a ELSE b

\* A check that forgets the sign of width.
WidthOkAnyInt(w) == w.isInt

\* isinstance(width, int) and width >= 0
WidthOk(w) == w.isInt /\ w.val >= 0

\* isinstance(fillchar, str) and len(fillchar) == 1
FillOk(f) == Len(f) = 1

\* Padding on the wrong side.
JoinRight(fill, s) == s \o fill

\* margin * fillchar + string
Join(fill, s) == fill \o s

leftpad(s, w, f) ==
    IF ~WidthOk(w) THEN Raise("AssertionError")
    ELSE IF ~FillOk(f) THEN Raise("AssertionError")
    ELSE LET margin == Max(w.val - Len(s), 0)
         IN  Return(Join(StrMul(f, margin), s))

InitPad ==
    /\ pc = "start"
    /\ string \in Strings(PadAlphabet, MaxPadLen)
    /\ width \in Widths
    /\ fillchar \in Strings(PadAlphabet, 2)
    /\ padded = <<>>
    /\ vowelIdle /\ mergeIdle /\ rleIdle

\* padded = leftpad(in_string, width, fillchar)
Pad ==
    /\ pc = "start"
    /\ padded' = leftpad(string, width, fillchar)
    /\ pc' = "padded"
    /\ UNCHANGED <<string, width, fillchar, vowelVars, mergeVars, rleVars>>

NextPad == Pad

SpecPad == InitPad /\ [][NextPad]_vars

-----------------------------------------------------------------------------
(* run_length_encoder / run_length_decoder *)

\* A token is a str of one character or an int.
CharTok(c) == [isInt |-> FALSE, ch |-> c, n |-> 0]
IntTok(n) == [isInt |-> TRUE, ch |-> 0, n |-> n]

\* a, b and the digit 2
RleAlphabet == {97, 98, 50}

\* The tokens a caller may hand to the decoder directly.
RawTokens == {CharTok(c) : c \in {97, 98}} \cup {IntTok(n) : n \in 2..3}

\* cnt = sum(1 for x in group), for the first group groupby yields on s:
\* the length of the longest prefix of s of one repeated character.
RECURSIVE LeadingRun(_)
LeadingRun(s) ==
    IF Len(s) <= 1 THEN Len(s)
    ELSE IF s[2] = s[1] THEN 1 + LeadingRun(Tail(s))
    ELSE 1

\* An encoder that writes the count for every run.
EmitAlwaysCounted(item, cnt) == <<CharTok(item), CharTok(item), IntTok(cnt)>>

\* if cnt == 1: out.append(item) else: out.extend((item, item, cnt))
Emit(item, cnt) ==
    IF cnt = 1 THEN <<CharTok(item)>>
    ELSE <<CharTok(item), CharTok(item), IntTok(cnt)>>

\* for item, group in groupby(in_string): ...
RECURSIVE run_length_encoder(_)
run_length_encoder(s) ==
    IF s = <<>> THEN <<>>
    ELSE LET item == Head(s)
             cnt == LeadingRun(s)
         IN  Emit(item, cnt) \o run_length_encoder(SubSeq(s, cnt + 1, Len(s)))

\* in_list[n - 1], n counted from 0: index -1 is the last element.
Previous(l, i) == l[IF i = 1 THEN Len(l) ELSE i - 1]

\* A decoder that forgets one of the two characters already written.
ExpandOneLess(c, count) == StrMul(<<c>>, count - 1)

\* in_list[n - 1] * (item - 2), for a str in_list[n - 1]
Expand(c, count) == StrMul(<<c>>, count - 2)

\* The loop of run_length_decoder from token i on, with out built so far.
\* An int token after an int token makes the product an int, and
\* out += <int> raises TypeError.
RECURSIVE DecodeFrom(_, _, _)
DecodeFrom(l, i, out) ==
    IF i > Len(l) THEN Return(out)
    ELSE LET item == l[i]
         IN  IF item.isInt
             THEN LET prev == Previous(l, i)
                  IN  IF prev.isInt THEN Raise("TypeError")
                      ELSE DecodeFrom(l, i + 1, out \o Expand(prev.ch, item.n))
             ELSE DecodeFrom(l, i + 1, out \o <<item.ch>>)

run_length_decoder(l) == DecodeFrom(l, 1, <<>>)

\* Either a string to encode, or a token stream handed to the decoder.
InitRle ==
    /\ \/ /\ pc = "start"
          /\ in_string \in Strings(RleAlphabet, MaxRleLen)
          /\ in_list = <<>>
          /\ origin = "none"
       \/ /\ pc = "given"
          /\ in_string = <<>>
          /\ in_list \in Strings(RawTokens, MaxTokens)
          /\ origin = "caller"
    /\ decoded = <<>>
    /\ vowelIdle /\ mergeIdle /\ padIdle

\* run_length_encoder(x)
Encode ==
    /\ pc = "start"
    /\ in_list' = run_length_encoder(in_string)
    /\ origin' = "encoder"
    /\ pc' = "encoded"
    /\ UNCHANGED <<in_string, decoded, vowelVars, mergeVars, padVars>>

\* run_length_decoder(in_list)
Decode ==
    /\ pc \in {"encoded", "given"}
    /\ decoded' = run_length_decoder(in_list)
    /\ pc' = "decoded"
    /\ UNCHANGED <<in_string, in_list, origin, vowelVars, mergeVars, padVars>>

NextRle ==
    \/ Encode
    \/ Decode

SpecRle == InitRle /\ [][NextRle]_vars

-----------------------------------------------------------------------------
(* Properties *)

\* C1: decoding what the encoder produced gives back the input string, for
\* every string: the empty one, strings of digit characters, runs of any
\* length.
RoundTrip ==
    (pc = "decoded" /\ origin = "encoder") =>
        (decoded.kind = "return" /\ decoded.value = in_string)

\* A round trip of a string holding a digit character and a run of three
\* or more.
RoundTripWitness ==
    /\ pc = "decoded" /\ origin = "encoder"
    /\ \E i \in 1..Len(in_list) : in_list[i].isInt /\ in_list[i].n >= 3
    /\ \E j \in 1..Len(in_string) : in_string[j] = 50

\* C2: the result's keys are the union of the inputs' keys; a key of one
\* input alone keeps that input's value; a key of both gets the larger
\* value; every pair of the result is a pair of an input, and no input
\* value exceeds the result's.
MergeContract ==
    pc = "merged" =>
        LET d1 == heap[dict1]
            d2 == heap[dict2]
            m  == heap[merged]
        IN  /\ DOMAIN m = DOMAIN d1 \cup DOMAIN d2
            /\ \A k \in DOMAIN d1 \ DOMAIN d2 : m[k] = d1[k]
            /\ \A k \in DOMAIN d2 \ DOMAIN d1 : m[k] = d2[k]
            /\ \A k \in DOMAIN d1 \cap DOMAIN d2 : m[k].num = Max(d1[k].num, d2[k].num)
            /\ \A k \in DOMAIN m :
                  \/ k \in DOMAIN d1 /\ m[k] = d1[k]
                  \/ k \in DOMAIN d2 /\ m[k] = d2[k]
            /\ \A k \in DOMAIN d1 : Le(d1[k], m[k])
            /\ \A k \in DOMAIN d2 : Le(d2[k], m[k])

\* A merge with a key of dict1 alone, and a common key whose value is
\* larger in dict2.
MergeContractWitness ==
    /\ pc = "merged"
    /\ "a" \in DOMAIN heap[dict1] /\ "a" \notin DOMAIN heap[dict2]
    /\ "b" \in DOMAIN heap[dict1] /\ "b" \in DOMAIN heap[dict2]
    /\ Gt(heap[dict2]["b"], heap[dict1]["b"])

\* C3: merging the result with dict2, or dict1 with the result, gives the
\* result again.
MergeFixedPoint ==
    pc \in {"result_dict2", "dict1_result"} => heap[again] = heap[merged]

\* A second merge after a first one whose result is neither input.
MergeFixedPointWitness ==
    /\ pc = "dict1_result"
    /\ heap[merged] # heap[dict1]
    /\ heap[merged] # heap[dict2]

\* C4: with a width >= 0 and a fillchar of one character, a string at least
\* width long comes back unchanged, and a shorter one comes back preceded by
\* width - len(string) copies of fillchar.
LeftpadContract ==
    (pc = "padded" /\ width.isInt /\ width.val >= 0 /\ Len(fillchar) = 1) =>
        /\ padded.kind = "return"
        /\ Len(padded.value) = Max(width.val, Len(string))
        /\ IF Len(string) >= width.val
           THEN padded.value = string
           ELSE LET margin == width.val - Len(string)
                IN  /\ \A i \in 1..margin : padded.value[i] = fillchar[1]
                    /\ SubSeq(padded.value, margin + 1, Len(padded.value)) = string

\* A call that pads a non-empty string by two or more characters.
LeftpadContractWitness ==
    /\ pc = "padded"
    /\ width.isInt /\ Len(fillchar) = 1
    /\ Len(string) > 0
    /\ width.val >= Len(string) + 2
    /\ fillchar[1] # string[1]

\* C5: the decoder raises on a token stream that starts with a count, or
\* holds a count that no character token precedes.
Malformed(l) ==
    \E i \in 1..Len(l) : l[i].isInt /\ (i = 1 \/ l[i - 1].isInt)

DecoderRejectsMalformed ==
    (pc = "decoded" /\ origin = "caller" /\ Malformed(in_list)) =>
        decoded.kind = "raise"

\* C6 as stated: upper- and lower-casing leave the count unchanged for every
\* string over the full character set.
CaseInsensitive ==
    (pc = "derived" /\ derived.how \in {"upper", "lower"}) =>
        derived.count = num_vowels

\* C6 as amended: upper- and lower-casing leave the count unchanged for
\* every string of ASCII characters.
CaseInsensitiveAscii ==
    (pc = "derived" /\ derived.how \in {"upper", "lower"} /\ IsAscii(x)) =>
        derived.count = num_vowels

\* An ASCII string with a lower-case vowel, upper-cased.
CaseInsensitiveAsciiWitness ==
    /\ pc = "derived" /\ derived.how = "upper"
    /\ IsAscii(x)
    /\ derived.arg # x
    /\ num_vowels > 0

\* C7: the count lies in 0..len(s); n copies of s hold n times the vowels
\* of s; reversing, sorting or otherwise permuting s keeps the count.
CountLaws ==
    /\ pc # "start" => (0 <= num_vowels /\ num_vowels <= Len(x))
    /\ (pc = "derived" /\ derived.how = "repeat") =>
          derived.count = derived.n * num_vowels
    /\ (pc = "derived" /\ derived.how \in {"reverse", "sort", "permute"}) =>
          derived.count = num_vowels

\* Two copies of a string that holds both vowels and other characters.
CountLawsWitness ==
    /\ pc = "derived" /\ derived.how = "repeat" /\ derived.n = 2
    /\ num_vowels > 0
    /\ num_vowels < Len(x)

\* C8: a width that is not an int >= 0, or a fillchar that is not one
\* character, makes leftpad raise and return nothing, whatever the other
\* arguments are.
LeftpadPrecondition ==
    (pc = "padded" /\ ~(width.isInt /\ width.val >= 0 /\ Len(fillchar) = 1)) =>
        (padded.kind = "raise" /\ padded.exc = "AssertionError")

\* A negative width with a string that needs no padding and a fillchar of
\* one character.
LeftpadPreconditionWitness ==
    /\ pc = "padded"
    /\ width.isInt /\ width.val < 0
    /\ Len(fillchar) = 1
    /\ Len(string) > 0

\* C9: dict1 and dict2 hold the entries they held before the call, whatever
\* happens to the result later, and the result is an object of its own.
InputsUntouched ==
    pc # "start" =>
        /\ heap[dict1] = before[1]
        /\ heap[dict2] = before[2]
        /\ merged \notin {dict1, dict2}

\* The result of merging a mapping with itself, changed by the caller.
InputsUntouchedWitness ==
    /\ pc = "changed"
    /\ dict1 = dict2
    /\ heap[dict1] # <<>>
    /\ heap[merged] # heap[dict1]

\* The maximal runs of s, stated by position: a run starts where the
\* character differs from the one before it.
RunStarts(s) == {i \in 1..Len(s) : i = 1 \/ s[i] # s[i - 1]}

RunEnd(s, i) ==
    LET later == {j \in RunStarts(s) : j > i}
    IN  IF later = {} THEN Len(s) ELSE (CHOOSE j \in later : \A k \in later : j <= k) - 1

RunLength(s, i) == RunEnd(s, i) - i + 1

\* The number of tokens the runs starting before position i take.
RECURSIVE TokensBefore(_, _)
TokensBefore(s, i) ==
    LET earlier == {j \in RunStarts(s) : j < i}
    IN  IF earlier = {} THEN 0
        ELSE LET j == CHOOSE e \in earlier : \A k \in earlier : e >= k
             IN  TokensBefore(s, j) + (IF RunLength(s, j) = 1 THEN 1 ELSE 3)

\* C10: the output holds, in order, one character token for each maximal
\* run of length 1 and the tokens (c, c, n) for each maximal run of c of
\* length n >= 2; so every int token is at least 2 and follows two equal
\* character tokens, and consecutive runs encode different characters.
EncoderLayout ==
    pc = "encoded" =>
        /\ Len(in_list) = TokensBefore(in_string, Len(in_string) + 1)
        /\ \A i \in RunStarts(in_string) :
              LET o == TokensBefore(in_string, i)
                  n == RunLength(in_string, i)
                  c == CharTok(in_string[i])
              IN  IF n = 1 THEN in_list[o + 1] = c
                  ELSE /\ in_list[o + 1] = c
                       /\ in_list[o + 2] = c
                       /\ in_list[o + 3] = IntTok(n)
        /\ \A i \in 1..Len(in_list) :
              in_list[i].isInt =>
                 /\ in_list[i].n >= 2
                 /\ i >= 3
                 /\ ~in_list[i - 1].isInt /\ ~in_list[i - 2].isInt
                 /\ in_list[i - 1].ch = in_list[i - 2].ch
                 /\ i < Len(in_list) =>
                       (~in_list[i + 1].isInt /\ in_list[i + 1].ch # in_list[i - 1].ch)
        /\ \A i \in 1..(Len(in_list) - 1) :
              (~in_list[i].isInt /\ ~in_list[i + 1].isInt
                    /\ in_list[i].ch = in_list[i + 1].ch) =>
                 (i + 2 <= Len(in_list) /\ in_list[i + 2].isInt)

\* An encoding of a run of three or more followed by a run of one.
EncoderLayoutWitness ==
    /\ pc = "encoded"
    /\ \E i \in 1..(Len(in_list) - 1) :
          /\ in_list[i].isInt /\ in_list[i].n >= 3
          /\ i + 1 = Len(in_list)

=============================================================================
